---- MODULE Spec2Model ----
(***************************************************************************)
(* Model of drf_dynamic_fields.DynamicFieldsMixin                          *)
(* (src/drf_dynamic_fields/__init__.py).                                   *)
(*                                                                         *)
(* One serializer object is followed through its life: construction, the  *)
(* environment replacing its context / the request's query parameters,    *)
(* and calls of _filtered_readable_fields_dict.  Strings are sequences of *)
(* one-character strings, so that str.split(',') is computed and not      *)
(* assumed.  An OrderedDict is the sequence of its items (field records), *)
(* in insertion order.                                                     *)
(***************************************************************************)
EXTENDS Naturals, Sequences, FiniteSets

VARIABLES
    fields,                 \* self.fields: the declared registry, in declaration order
    cached,                 \* TRUE once cached_property _readable_fields_dict was computed
    readable_fields_dict,   \* the OrderedDict stored by the cached_property
    has_context,            \* hasattr(self, '_context')
    context,                \* self.context: is there a 'request', and what it exposes
    calls,                  \* "none" / "first" / "later": calls made on this object so far
    returned,               \* TRUE while the outcome below is that of the latest step
    repeated,               \* TRUE when that call directly followed another call
    ret,                    \* keys of the mapping returned by the latest call, in order
    warned,                 \* warnings emitted by the latest call
    raised                  \* exception that left the latest call ("none" if it returned)

vars == <<fields, cached, readable_fields_dict, has_context, context,
          calls, returned, repeated, ret, warned, raised>>

(***************************************************************************)
(* Bounds of the model.                                                    *)
(***************************************************************************)
MaxTokens == 2      \* most comma-separated tokens in one directive value

Comma == ","

\* Names a serializer may declare (and a client may name in a directive):
\* "id" and "n".
FieldNames == { <<"i", "d">>, <<"n">> }

----------------------------------------------------------------------------
(***************************************************************************)
(* Values of the environment.                                              *)
(***************************************************************************)

\* A value stored under a key of the query parameters.
Absent    == [kind |-> "absent", s |-> <<>>]   \* key not in params: get() gives None
NonString == [kind |-> "nonstr", s |-> <<>>]   \* a value without a split attribute
Str(s)    == [kind |-> "str", s |-> s]

RECURSIVE Join(_)
\* ",".join(tokens)
Join(ts) ==
    IF Len(ts) = 0 THEN <<>>
    ELSE IF Len(ts) = 1 THEN ts[1]
    ELSE ts[1] \o <<Comma>> \o Join(Tail(ts))

TokenPool == FieldNames \cup { <<>> }

TokenLists == UNION { [1..n -> TokenPool] : n \in 1..MaxTokens }

DirectiveStrings == { Join(ts) : ts \in TokenLists }

DirectiveValues == { Absent, NonString } \cup { Str(s) : s \in DirectiveStrings }

NoParams == [fields |-> Absent, omit |-> Absent]

\* Which attribute of the request carries the parameters.
RequestAttrs == { "query_params", "GET", "none" }

\* Context without a 'request' key.
NoRequest == [has_request |-> FALSE, attr |-> "none", params |-> NoParams]

Request(attr, params) == [has_request |-> TRUE, attr |-> attr, params |-> params]

\* The registries a serializer class may declare: distinct names in any
\* declaration order, each field with its write_only flag.
Registries ==
    UNION { { f \in [1..n -> [name : FieldNames, write_only : BOOLEAN]] :
                \A i, j \in 1..n : i # j => f[i].name # f[j].name }
            : n \in 0..Cardinality(FieldNames) }

----------------------------------------------------------------------------
(***************************************************************************)
(* Pure helpers: Python's str.split, filter(None, .), OrderedDict.         *)
(***************************************************************************)

RECURSIVE SplitFrom(_, _, _, _)
SplitFrom(s, i, cur, acc) ==
    IF i > Len(s) THEN Append(acc, cur)
    ELSE IF s[i] = Comma THEN SplitFrom(s, i + 1, <<>>, Append(acc, cur))
    ELSE SplitFrom(s, i + 1, Append(cur, s[i]), acc)

\* Variant of Split: the value taken whole, as one token.
SplitWhole(s) == <<s>>

\* s.split(','): the list of tokens, never empty ("" gives [""]).
Split(s) == SplitFrom(s, 1, <<>>, <<>>)

\* set(filter(None, tokens)): the non-empty tokens.
NonEmptyTokens(tokens) == { tokens[i] : i \in { j \in 1..Len(tokens) : tokens[j] # <<>> } }

\* d.keys() as a sequence, in the OrderedDict's order.
Keys(d) == [i \in 1..Len(d) |-> d[i].name]

KeySet(d) == { d[i].name : i \in 1..Len(d) }

\* d.pop(key, None): the dict without key, the other items in their order.
Pop(d, key) == SelectSeq(d, LAMBDA item : item.name # key)

\* Variant of ReadableFieldsDict: built in the opposite order (as from a
\* mapping that does not keep the declaration order).
ReadableFieldsDictUnordered(registry) ==
    LET d == SelectSeq(registry, LAMBDA item : ~item.write_only)
    IN  [i \in 1..Len(d) |-> d[Len(d) + 1 - i]]

\* OrderedDict((name, field) for name, field in self.fields.items()
\*             if not field.write_only)
ReadableFieldsDict(registry) == SelectSeq(registry, LAMBDA item : ~item.write_only)

----------------------------------------------------------------------------
(***************************************************************************)
(* Exceptions: an evaluation either gives a value or raises.               *)
(***************************************************************************)

Ok(v)      == [exc |-> "none", val |-> v]
Raise(e)   == [exc |-> e, val |-> <<>>]

\* self.context['request']: KeyError when the key is missing.
ContextRequest(ctx) ==
    IF ctx.has_request THEN Ok(ctx) ELSE Raise("KeyError")

\* The exception class named by the handler "except KeyError:" around
\* self.context['request'].
RequestHandler == "KeyError"

\* getattr(request, 'query_params', getattr(request, 'GET', None)).
\* none is TRUE when the result is None.
QueryParams(request) ==
    IF request.attr = "query_params" THEN [none |-> FALSE, d |-> request.params]
    ELSE IF request.attr = "GET" THEN [none |-> FALSE, d |-> request.params]
    ELSE [none |-> TRUE, d |-> NoParams]

\* Variant of GetSplit: a value without split is converted to text and
\* split, instead of raising.
GetSplitCoerced(params, key) ==
    IF params.none THEN Raise("AttributeError")
    ELSE LET v == params.d[key]
         IN  IF v.kind = "str" THEN Ok(Split(v.s))
             ELSE IF v.kind = "nonstr" THEN Ok(<< <<"?">> >>)
             ELSE Raise("AttributeError")

\* params.get(key, None).split(','): AttributeError when params is None
\* (no get), when the key is absent (None has no split) and when the value
\* has no split.
GetSplit(params, key) ==
    IF params.none THEN Raise("AttributeError")
    ELSE LET v == params.d[key]
         IN  IF v.kind = "str" THEN Ok(Split(v.s)) ELSE Raise("AttributeError")

\* The exception class named by the two handlers "except AttributeError:".
DirectiveHandler == "AttributeError"

\* try: filter_fields = params.get('fields', None).split(',')
\* except AttributeError: filter_fields = None
FilterFields(params) ==
    LET r == GetSplit(params, "fields")
    IN  IF r.exc = "none" THEN [exc |-> "none", is_none |-> FALSE, tokens |-> r.val]
        ELSE IF r.exc = DirectiveHandler
             THEN [exc |-> "none", is_none |-> TRUE, tokens |-> <<>>]
        ELSE [exc |-> r.exc, is_none |-> TRUE, tokens |-> <<>>]

\* try: omit_fields = params.get('omit', None).split(',')
\* except AttributeError: omit_fields = []
OmitFields(params) ==
    LET r == GetSplit(params, "omit")
    IN  IF r.exc = "none" THEN [exc |-> "none", tokens |-> r.val]
        ELSE IF r.exc = DirectiveHandler THEN [exc |-> "none", tokens |-> <<>>]
        ELSE [exc |-> r.exc, tokens |-> <<>>]

\* Variant of Allowed: an allow-set without tokens falls back to existing.
AllowedOrExisting(filter_fields, existing) ==
    IF filter_fields.is_none \/ NonEmptyTokens(filter_fields.tokens) = {}
    THEN existing
    ELSE NonEmptyTokens(filter_fields.tokens)

\* if filter_fields is None: allowed = existing
\* else: allowed = set(filter(None, filter_fields))
Allowed(filter_fields, existing) ==
    IF filter_fields.is_none THEN existing ELSE NonEmptyTokens(filter_fields.tokens)

\* omitted = set(filter(None, omit_fields))
Omitted(omit_fields) == NonEmptyTokens(omit_fields.tokens)

\* One pass of the loop body for one field: both checks run, each pops.
DropField(d, field, allowed, omitted) ==
    LET d1 == IF field \notin allowed THEN Pop(d, field) ELSE d
    IN  IF field \in omitted THEN Pop(d1, field) ELSE d1

\* Variant of DropFields: the loop is left after its first pass.
DropFieldsFirstOnly(d, todo, allowed, omitted) ==
    IF todo = {} THEN d
    ELSE DropField(d, CHOOSE f \in todo : TRUE, allowed, omitted)

RECURSIVE DropFields(_, _, _, _)
\* for field in existing: ...   (existing is a set: the order of the
\* iteration is whatever the set gives)
DropFields(d, todo, allowed, omitted) ==
    IF todo = {} THEN d
    ELSE LET field == CHOOSE f \in todo : TRUE
         IN  DropFields(DropField(d, field, allowed, omitted),
                        todo \ {field}, allowed, omitted)

WarnNoRequest == "Context does not have access to request"
WarnNoParams  == "Request object does not contain query paramters"

Returns(d, w) == [exc |-> "none", dict |-> d, warnings |-> w]
Raises(e, d, w) == [exc |-> e, dict |-> d, warnings |-> w]

\* The body of _filtered_readable_fields_dict after "fields =
\* self._readable_fields_dict": d is that OrderedDict, which the body
\* mutates and returns; the result carries the dict as left by the call.
FilteredReadableFieldsDict(d, hc, ctx) ==
    IF ~hc THEN Returns(d, {})
    ELSE
      LET request == ContextRequest(ctx)
      IN
      IF request.exc # "none"
      THEN IF request.exc = RequestHandler
           THEN Returns(d, {WarnNoRequest})
           ELSE Raises(request.exc, d, {})
      ELSE
        LET params        == QueryParams(request.val)
            w             == IF params.none THEN {WarnNoParams} ELSE {}
            filter_fields == FilterFields(params)
            omit_fields   == OmitFields(params)
            existing      == KeySet(d)
        IN
        IF filter_fields.exc # "none" THEN Raises(filter_fields.exc, d, w)
        ELSE IF omit_fields.exc # "none" THEN Raises(omit_fields.exc, d, w)
        ELSE Returns(DropFields(d, existing,
                                Allowed(filter_fields, existing),
                                Omitted(omit_fields)), w)

\* Variant of ReadableFieldsProperty: a plain property, computed at every
\* access.
ReadableFieldsUncached == ReadableFieldsDict(fields)

\* self._readable_fields_dict: the cached_property computes on first
\* access and afterwards hands out the stored object.
ReadableFieldsProperty ==
    IF cached THEN readable_fields_dict ELSE ReadableFieldsDict(fields)

----------------------------------------------------------------------------
(***************************************************************************)
(* State machine.                                                          *)
(***************************************************************************)

Init ==
    /\ fields \in Registries
    /\ cached = FALSE
    /\ readable_fields_dict = <<>>
    /\ has_context \in BOOLEAN
    /\ context = NoRequest
    /\ calls = "none"
    /\ returned = FALSE
    /\ repeated = FALSE
    /\ ret = <<>>
    /\ warned = {}
    /\ raised = "none"

\* A new serializer object of the same class: nothing cached yet.
Construct ==
    /\ cached' = FALSE
    /\ readable_fields_dict' = <<>>
    /\ has_context' \in BOOLEAN
    /\ context' = NoRequest
    /\ calls' = "none"
    /\ returned' = FALSE
    /\ repeated' = FALSE
    /\ ret' = <<>>
    /\ warned' = {}
    /\ raised' = "none"
    /\ UNCHANGED fields

\* The host gives the serializer a context: without a request, or with a
\* request (of one of the flavours) whose query string is still empty.
SetContext ==
    /\ \E c \in { NoRequest } \cup { Request(a, NoParams) : a \in RequestAttrs } :
          context' = c
    /\ has_context' = TRUE
    /\ returned' = FALSE
    /\ repeated' = FALSE
    /\ warned' = {}
    /\ raised' = "none"
    /\ UNCHANGED <<fields, cached, readable_fields_dict, calls, ret>>

\* The request's query parameters get a value under 'fields' or 'omit'.
SetQueryParam ==
    /\ has_context
    /\ context.has_request
    /\ context.attr # "none"
    /\ \E key \in { "fields", "omit" }, v \in DirectiveValues :
          /\ context.params[key] # v
          /\ context' = [context EXCEPT !.params[key] = v]
    /\ returned' = FALSE
    /\ repeated' = FALSE
    /\ warned' = {}
    /\ raised' = "none"
    /\ UNCHANGED <<fields, cached, readable_fields_dict, has_context, calls, ret>>

\* One call of self._filtered_readable_fields_dict() (what the property
\* _readable_fields does, handing out the values of the result).
Call ==
    LET r == FilteredReadableFieldsDict(ReadableFieldsProperty, has_context, context)
    IN  /\ cached' = TRUE
        /\ readable_fields_dict' = r.dict
        /\ ret' = IF r.exc = "none" THEN Keys(r.dict) ELSE ret
        /\ warned' = r.warnings
        /\ raised' = r.exc
        /\ returned' = TRUE
        /\ repeated' = returned
        /\ calls' = IF calls = "none" THEN "first" ELSE "later"
        /\ UNCHANGED <<fields, has_context, context>>

Next == Construct \/ SetContext \/ SetQueryParam \/ Call

Spec == Init /\ [][Next]_vars

----------------------------------------------------------------------------
(***************************************************************************)
(* What the specification says, stated without the code's own helpers.     *)
(***************************************************************************)

\* The registry restricted to the fields not marked write-only, as names
\* in declaration order.
RegistryReadable ==
    LET keep == SelectSeq(fields, LAMBDA f : f.write_only = FALSE)
    IN  [i \in 1..Len(keep) |-> keep[i].name]

Range(seq) == { seq[i] : i \in 1..Len(seq) }

\* The non-empty comma-separated tokens of s: the maximal comma-free
\* pieces of s.
TokenSet(s) ==
    { SubSeq(s, ij[1], ij[2]) :
        ij \in { p \in (1..Len(s)) \X (1..Len(s)) :
                   /\ p[1] <= p[2]
                   /\ \A k \in p[1]..p[2] : s[k] # Comma
                   /\ (p[1] = 1 \/ s[p[1] - 1] = Comma)
                   /\ (p[2] = Len(s) \/ s[p[2] + 1] = Comma) } }

\* The directive the request carries under key (none when the request has
\* no parameter container).
Directive(key) ==
    IF context.attr = "none" THEN Absent ELSE context.params[key]

AllowSet(v, names) == IF v.kind = "str" THEN TokenSet(v.s) ELSE Range(names)

DenySet(v) == IF v.kind = "str" THEN TokenSet(v.s) ELSE {}

\* { name in names : name in allow-set and not in deny-set }, in the order
\* of names.
Selected(names, f, o) ==
    SelectSeq(names, LAMBDA n : n \in AllowSet(f, names) /\ n \notin DenySet(o))

\* ret's names are pairwise distinct and in the relative order of names.
InOrderOf(r, names) ==
    /\ \A i, j \in 1..Len(r) : i < j => r[i] # r[j]
    /\ \A i, j \in 1..Len(r) : i < j =>
          \E a, b \in 1..Len(names) : a < b /\ names[a] = r[i] /\ names[b] = r[j]
    /\ Range(r) \subseteq Range(names)

\* The step is a call of _filtered_readable_fields_dict (the only action
\* that leaves returned TRUE).
CallStep == returned' /\ Call

\* The latest step was a call made with a request in the context.
CalledWithRequest == returned /\ has_context /\ context.has_request

IsString(v) == v.kind = "str"

\* fields is present and has no token: empty, or commas only.
BlankFields ==
    /\ IsString(Directive("fields"))
    /\ \A k \in 1..Len(Directive("fields").s) : Directive("fields").s[k] = Comma

IdN == Str(<<"i", "d", Comma, "n">>)    \* "id,n"
NId == Str(<<"n", Comma, "i", "d">>)    \* "n,id"
Id  == Str(<<"i", "d">>)                \* "id"

----------------------------------------------------------------------------
(***************************************************************************)
(* Claims.                                                                 *)
(***************************************************************************)

\* C1: a first call on a serializer with a request in its context returns
\* exactly the readable names that are in the allow-set (all readable names
\* when fields is absent, else the non-empty tokens of fields) and not in
\* the deny-set (the non-empty tokens of omit), in registry order, and
\* raises nothing; with neither directive the result is the readable
\* registry.
C1_FirstCallSelects ==
    ( /\ CalledWithRequest
      /\ calls = "first"
      /\ Directive("fields").kind # "nonstr"
      /\ Directive("omit").kind # "nonstr" )
    => /\ raised = "none"
       /\ ret = Selected(RegistryReadable, Directive("fields"), Directive("omit"))
       /\ (Directive("fields") = Absent /\ Directive("omit") = Absent
              => ret = RegistryReadable)

\* Witness of C1: a first call with fields=id,n and omit=id returned just n.
C1_Witness ==
    /\ CalledWithRequest
    /\ calls = "first"
    /\ Directive("fields") = IdN
    /\ Directive("omit") = Id
    /\ ret = << <<"n">> >>

\* C2: a call made with fields present but blank (empty, or only commas)
\* returns the empty mapping whatever omit holds; a call made with fields
\* absent removes nothing but what omit names.
C2_BlankFieldsRemoveAll ==
    [][ ( /\ CallStep
          /\ has_context
          /\ context.has_request
          /\ context.attr # "none" )
        => /\ BlankFields => (raised' = "none" /\ ret' = <<>>)
           /\ Directive("fields") = Absent
                => ret' = Selected(Keys(ReadableFieldsProperty), Absent,
                                   IF IsString(Directive("omit"))
                                   THEN Directive("omit") ELSE Absent)
      ]_vars

\* Witness of C2: a call on a registry with readable fields, made with
\* fields=, (a comma only), returned the empty mapping.
C2_Witness ==
    /\ CalledWithRequest
    /\ RegistryReadable # <<>>
    /\ Directive("fields") = Str(<<Comma>>)
    /\ ret = <<>>

\* C3: the names returned by a call are in the relative order of the
\* declared registry, whatever order the tokens of fields have.
C3_RegistryOrder ==
    (returned /\ raised = "none") => InOrderOf(ret, Keys(fields))

\* Witness of C3: registry id,n and fields=n,id returned id,n.
C3_Witness ==
    /\ CalledWithRequest
    /\ Keys(fields) = << <<"i", "d">>, <<"n">> >>
    /\ Directive("fields") = NId
    /\ ret = << <<"i", "d">>, <<"n">> >>

\* C4: a call that directly follows another call on the same serializer,
\* under the same context and query parameters, returns the same names in
\* the same order as that call.
C4_Idempotent ==
    [][ (CallStep /\ returned) => (raised' = "none" /\ ret' = ret) ]_vars

\* Witness of C4: a repeated call under fields=id,n and omit=id, which
\* filtered something and left something.
C4_Witness ==
    /\ CalledWithRequest
    /\ repeated
    /\ Directive("fields") = IdN
    /\ Directive("omit") = Id
    /\ ret = << <<"n">> >>

\* C5: a call on a serializer whose context lacks 'request' warns, raises
\* nothing and returns all readable fields of the registry.
C5_NoRequestReturnsAll ==
    (returned /\ has_context /\ ~context.has_request)
    => /\ warned = {WarnNoRequest}
       /\ raised = "none"
       /\ ret = RegistryReadable

\* The fail-open paths on a serializer whose memo no call has filtered yet:
\* a first call without a request, or with a request without parameters,
\* warns, raises nothing and returns the readable registry.
FirstCallFailsOpen ==
    (returned /\ calls = "first" /\ has_context
       /\ (~context.has_request \/ context.attr = "none"))
    => /\ warned = IF context.has_request THEN {WarnNoParams} ELSE {WarnNoRequest}
       /\ raised = "none"
       /\ ret = RegistryReadable

\* C6: a call with a request that exposes neither query_params nor GET
\* warns, raises nothing and returns the full readable registry.
C6_NoParamsReturnsAll ==
    (CalledWithRequest /\ context.attr = "none")
    => /\ warned = {WarnNoParams}
       /\ raised = "none"
       /\ ret = RegistryReadable

\* C7: a call with a fields or omit value that is not a string raises
\* nothing and returns what the same call returns with that directive
\* removed from the query parameters.
C7_NonStringAsAbsent ==
    [][ ( /\ CallStep
          /\ has_context
          /\ context.has_request
          /\ context.attr # "none"
          /\ \/ Directive("fields") = NonString
             \/ Directive("omit") = NonString )
        => /\ raised' = "none"
           /\ LET without(key) ==
                    IF context.params[key] = NonString THEN Absent
                    ELSE context.params[key]
                  removed == [context EXCEPT
                                !.params = [fields |-> without("fields"),
                                            omit   |-> without("omit")]]
                  other == FilteredReadableFieldsDict(ReadableFieldsProperty,
                                                      has_context, removed)
              IN  /\ other.exc = "none"
                  /\ ret' = Keys(other.dict)
                  /\ ret' = Selected(Keys(ReadableFieldsProperty),
                                     without("fields"), without("omit"))
      ]_vars

\* Witness of C7: a call with a non-string fields value and omit=id
\* returned n.
C7_Witness ==
    /\ CalledWithRequest
    /\ raised = "none"
    /\ Directive("fields") = NonString
    /\ Directive("omit") = Id
    /\ Keys(fields) = << <<"i", "d">>, <<"n">> >>
    /\ ret = << <<"n">> >>

\* C8: once computed, the memoized _readable_fields_dict holds the registry
\* restricted to the fields not marked write-only.
C8_MemoIsReadableRegistry ==
    cached => Keys(readable_fields_dict) = RegistryReadable

\* C9: every call made with a request returns the filter of the full
\* readable registry under that call's own directives (a non-string
\* directive counting as absent), whatever earlier calls were made.
C9_NoLeakBetweenRequests ==
    (CalledWithRequest /\ raised = "none")
    => ret = Selected(RegistryReadable,
                      IF IsString(Directive("fields")) THEN Directive("fields") ELSE Absent,
                      IF IsString(Directive("omit")) THEN Directive("omit") ELSE Absent)

====
